---- MODULE Spec2Model ----
(***************************************************************************)
(* Dead Simple Signing Envelope (src/src/dsse.rs).                         *)
(*                                                                         *)
(* Byte strings (Vec<u8>, &[u8], String::as_bytes) are sequences of        *)
(* numbers in 0..255.  key_id strings are only compared and formatted, so  *)
(* they are TLA+ strings.                                                  *)
(***************************************************************************)
EXTENDS Integers, Sequences, FiniteSets, TLC

VARIABLES
    env,        \* the Envelope: payload_type, payload, signatures
    origin,     \* "new": made by Envelope::new; "wire": deserialized from a
                \* wire envelope made elsewhere
    order,      \* key_ids of the signatures present at construction/load,
                \* followed by the key_ids of the successful sign calls
    signedBy,   \* per key_id: the key of the signer a successful
                \* Envelope::sign used, 0 when there was none
    last,       \* the call whose result the caller holds: its arguments, the
                \* envelope it was made on, that envelope afterwards, the result
    type_,      \* pre_authentication_encoding: argument type_
    body,       \* pre_authentication_encoding: argument body
    buf,        \* pre_authentication_encoding: returned buffer
    calls       \* number of calls of pre_authentication_encoding made

vars == <<env, origin, order, signedBy, last, type_, body, buf, calls>>

envVars == <<env, origin, order, signedBy, last>>
paeVars == <<type_, body, buf, calls>>

-----------------------------------------------------------------------------
(* Bounds *)

\* longest payload_type / payload of an envelope
MaxLen == 1
\* most signatures an envelope is grown to
MaxSigs == 2
\* longest enumerated argument of pre_authentication_encoding
MaxPaeLen == 2
\* most calls of pre_authentication_encoding on one pair of arguments
MaxCalls == 2

-----------------------------------------------------------------------------
(* Bytes and sequences *)

SP == 32

\* b"DSSEv1 "
DSSEv1_SP == <<68, 83, 83, 69, 118, 49, SP>>

SeqsUpTo(S, n) == UNION {[1..k -> S] : k \in 0..n}

\* Rust's Display for usize: decimal ASCII digits, no leading zeros, "0" for 0
RECURSIVE Display(_)
Display(n) ==
    IF n < 10 THEN <<48 + n>>
    ELSE Display(n \div 10) \o <<48 + (n % 10)>>

-----------------------------------------------------------------------------
(* pre_authentication_encoding *)

\* a mutation: type and body are joined without their lengths
PAE_NoLengths(t, b) ==
    DSSEv1_SP \o t \o <<SP>> \o b

\* a mutation: the lengths are written without the separator before the bytes
PAE_NoSep(t, b) ==
    DSSEv1_SP \o Display(Len(t)) \o t \o <<SP>> \o Display(Len(b)) \o b

pre_authentication_encoding(t, b) ==
    LET buf0 == DSSEv1_SP
        buf1 == buf0 \o Display(Len(t)) \o <<SP>>
        buf2 == buf1 \o t
        buf3 == buf2 \o <<SP>> \o Display(Len(b)) \o <<SP>>
        buf4 == buf3 \o b
    IN  buf4

-----------------------------------------------------------------------------
(* Results and errors *)

Ok(v) == [tag |-> "Ok", kind |-> "", detail |-> <<>>, value |-> v]
Err(kind, detail) == [tag |-> "Err", kind |-> kind, detail |-> detail, value |-> <<>>]

\* Error::InvalidSigningKey, the variant both sign and verify construct
InvalidSigningKey == "InvalidSigningKey"

\* crate::Error as converted from signature::Error by `?`, named by where the
\* signature::Error arises: signer.try_sign, S::from_bytes, verifier.verify
SigningFailure == "SigningFailure"
MalformedSignature == "MalformedSignature"
VerificationFailure == "VerificationFailure"

\* serde's error when the wire text does not decode
DeserializeError == "DeserializeError"

-----------------------------------------------------------------------------
(* The signing and verification capabilities (signature::Signer<S>,         *)
(* signature::Verifier<S>) and the signature type S.  The algorithm is a    *)
(* parameter of the code; it is instantiated here by an ideal scheme: the   *)
(* signature value of key k over msg is the pair (k, msg), its byte form    *)
(* is a tag byte, the key byte and msg, and a verifier accepts exactly the  *)
(* values its own key produced over the message.                            *)

Keys == {1, 2}

\* a signer holds a key and either signs or rejects every message
Signers == [key : Keys, rejects : BOOLEAN]
Verifiers == [key : Keys]

\* the first byte of every well-formed signature (as the 0x30 of a DER one)
SigMagic == 48

\* signer.try_sign(&msg)
try_sign(signer, msg) ==
    IF signer.rejects THEN Err("signature::Error", <<>>)
    ELSE Ok([key |-> signer.key, msg |-> msg])

\* S::as_bytes
as_bytes(sigval) == <<SigMagic, sigval.key>> \o sigval.msg

\* S::from_bytes
from_bytes(bytes) ==
    IF Len(bytes) >= 2 /\ bytes[1] = SigMagic
    THEN Ok([key |-> bytes[2], msg |-> SubSeq(bytes, 3, Len(bytes))])
    ELSE Err("signature::Error", <<>>)

\* verifier.verify(&msg, &signature)
verifier_verify(verifier, msg, sigval) ==
    IF sigval.key = verifier.key /\ sigval.msg = msg
    THEN Ok(<<>>)
    ELSE Err("signature::Error", <<>>)

-----------------------------------------------------------------------------
(* Signature *)

\* a mutation: the payload alone is signed, not its encoding with the type
Signature_sign_NoPAE(payload_type, payload, key_id, signer) ==
    LET signed == try_sign(signer, payload)
    IN  IF signed.tag = "Err"
        THEN [result |-> Err(SigningFailure, <<>>), invoked |-> TRUE]
        ELSE [result |-> Ok([key_id |-> key_id, signature |-> as_bytes(signed.value)]),
              invoked |-> TRUE]

\* Signature::sign; invoked records that the signer was called
Signature_sign(payload_type, payload, key_id, signer) ==
    LET msg == pre_authentication_encoding(payload_type, payload)
        signed == try_sign(signer, msg)
    IN  IF signed.tag = "Err"
        THEN [result |-> Err(SigningFailure, <<>>), invoked |-> TRUE]
        ELSE [result |-> Ok([key_id |-> key_id, signature |-> as_bytes(signed.value)]),
              invoked |-> TRUE]

\* a mutation: the signature is parsed and the verifier's answer is dropped
Signature_verify_NoCheck(sig, payload_type, payload, verifier) ==
    LET parsed == from_bytes(sig.signature)
    IN  IF parsed.tag = "Err" THEN Err(MalformedSignature, <<>>)
        ELSE Ok(<<>>)

\* Signature::verify
Signature_verify(sig, payload_type, payload, verifier) ==
    LET parsed == from_bytes(sig.signature)
    IN  IF parsed.tag = "Err" THEN Err(MalformedSignature, <<>>)
        ELSE LET msg == pre_authentication_encoding(payload_type, payload)
             IN  IF verifier_verify(verifier, msg, parsed.value).tag = "Err"
                 THEN Err(VerificationFailure, <<>>)
                 ELSE Ok(<<>>)

-----------------------------------------------------------------------------
(* Envelope *)

Envelope_new(payload_type, payload) ==
    [payload_type |-> payload_type, payload |-> payload, signatures |-> <<>>]

\* self.signatures().any(|s| s.key_id == key_id)
HasKeyId(e, key_id) ==
    \E i \in 1..Len(e.signatures) : e.signatures[i].key_id = key_id

\* self.signatures().find(|s| s.key_id == key_id): the index of the first match
FindKeyId(e, key_id) ==
    CHOOSE i \in 1..Len(e.signatures) :
        /\ e.signatures[i].key_id = key_id
        /\ \A j \in 1..(i - 1) : e.signatures[j].key_id # key_id

\* a mutation: the signature is made before the key_id is looked up
Envelope_sign_SignFirst(e, key_id, signer) ==
    LET made == Signature_sign(e.payload_type, e.payload, key_id, signer)
    IN  IF made.result.tag = "Err"
        THEN [env |-> e, result |-> made.result, invoked |-> made.invoked]
        ELSE IF HasKeyId(e, key_id)
        THEN [env |-> e,
              result |-> Err(InvalidSigningKey,
                             <<"already has a signature with key_id", key_id>>),
              invoked |-> made.invoked]
        ELSE [env |-> [e EXCEPT !.signatures = Append(@, made.result.value)],
              result |-> Ok(<<>>), invoked |-> made.invoked]

\* a mutation: the key_id is not looked up
Envelope_sign_NoCheck(e, key_id, signer) ==
    LET made == Signature_sign(e.payload_type, e.payload, key_id, signer)
    IN  IF made.result.tag = "Err"
        THEN [env |-> e, result |-> made.result, invoked |-> made.invoked]
        ELSE [env |-> [e EXCEPT !.signatures = Append(@, made.result.value)],
              result |-> Ok(<<>>), invoked |-> made.invoked]

\* a mutation: the new signature is put first
Envelope_sign_Prepend(e, key_id, signer) ==
    IF HasKeyId(e, key_id)
    THEN [env |-> e,
          result |-> Err(InvalidSigningKey,
                         <<"already has a signature with key_id", key_id>>),
          invoked |-> FALSE]
    ELSE LET made == Signature_sign(e.payload_type, e.payload, key_id, signer)
         IN  IF made.result.tag = "Err"
             THEN [env |-> e, result |-> made.result, invoked |-> made.invoked]
             ELSE [env |-> [e EXCEPT !.signatures = <<made.result.value>> \o @],
                   result |-> Ok(<<>>), invoked |-> made.invoked]

\* Envelope::sign: the envelope after the call, the value returned, and
\* whether the signer was called
Envelope_sign(e, key_id, signer) ==
    IF HasKeyId(e, key_id)
    THEN [env |-> e,
          result |-> Err(InvalidSigningKey,
                         <<"already has a signature with key_id", key_id>>),
          invoked |-> FALSE]
    ELSE LET made == Signature_sign(e.payload_type, e.payload, key_id, signer)
         IN  IF made.result.tag = "Err"
             THEN [env |-> e, result |-> made.result, invoked |-> made.invoked]
             ELSE [env |-> [e EXCEPT !.signatures = Append(@, made.result.value)],
                   result |-> Ok(<<>>), invoked |-> made.invoked]

\* the last index holding key_id
FindLastKeyId(e, key_id) ==
    CHOOSE i \in 1..Len(e.signatures) :
        /\ e.signatures[i].key_id = key_id
        /\ \A j \in (i + 1)..Len(e.signatures) : e.signatures[j].key_id # key_id

\* a mutation: the last signature with the key_id is the one checked
Envelope_verify_Last(e, key_id, verifier) ==
    IF ~HasKeyId(e, key_id)
    THEN [env |-> e,
          result |-> Err(InvalidSigningKey, <<"no signature with key_id", key_id>>),
          invoked |-> FALSE]
    ELSE LET signature == e.signatures[FindLastKeyId(e, key_id)]
             checked == Signature_verify(signature, e.payload_type, e.payload, verifier)
         IN  IF checked.tag = "Err"
             THEN [env |-> e, result |-> checked, invoked |-> TRUE]
             ELSE [env |-> e, result |-> Ok(e.payload), invoked |-> TRUE]

\* a mutation: a missing key_id is answered by checking the first signature
Envelope_verify_AnyKey(e, key_id, verifier) ==
    IF Len(e.signatures) = 0
    THEN [env |-> e,
          result |-> Err(InvalidSigningKey, <<"no signature with key_id", key_id>>),
          invoked |-> FALSE]
    ELSE LET signature ==
                 IF HasKeyId(e, key_id) THEN e.signatures[FindKeyId(e, key_id)]
                 ELSE e.signatures[1]
             checked == Signature_verify(signature, e.payload_type, e.payload, verifier)
         IN  IF checked.tag = "Err"
             THEN [env |-> e, result |-> checked, invoked |-> TRUE]
             ELSE [env |-> e, result |-> Ok(e.payload), invoked |-> TRUE]

\* a mutation: a signature that verified is consumed
Envelope_verify_Consume(e, key_id, verifier) ==
    IF ~HasKeyId(e, key_id)
    THEN [env |-> e,
          result |-> Err(InvalidSigningKey, <<"no signature with key_id", key_id>>),
          invoked |-> FALSE]
    ELSE LET i == FindKeyId(e, key_id)
             checked == Signature_verify(e.signatures[i], e.payload_type, e.payload,
                                         verifier)
         IN  IF checked.tag = "Err"
             THEN [env |-> e, result |-> checked, invoked |-> TRUE]
             ELSE [env |-> [e EXCEPT !.signatures =
                               SubSeq(@, 1, i - 1) \o SubSeq(@, i + 1, Len(@))],
                   result |-> Ok(e.payload), invoked |-> TRUE]

\* Envelope::verify: the envelope after the call (it takes &self), the value
\* returned, and whether the verifier was called
Envelope_verify(e, key_id, verifier) ==
    IF ~HasKeyId(e, key_id)
    THEN [env |-> e,
          result |-> Err(InvalidSigningKey, <<"no signature with key_id", key_id>>),
          invoked |-> FALSE]
    ELSE LET signature == e.signatures[FindKeyId(e, key_id)]
             checked == Signature_verify(signature, e.payload_type, e.payload, verifier)
         IN  IF checked.tag = "Err"
             THEN [env |-> e, result |-> checked, invoked |-> TRUE]
             ELSE [env |-> e, result |-> Ok(e.payload), invoked |-> TRUE]

-----------------------------------------------------------------------------
(* Wire format: crate::serde::base64 and the serde derive of Envelope and   *)
(* Signature.  Base64 text is a sequence of ASCII codes.                    *)

\* the character of a 6-bit value in the standard alphabet A-Z a-z 0-9 + /
B64Char(v) ==
    IF v < 26 THEN 65 + v
    ELSE IF v < 52 THEN 97 + (v - 26)
    ELSE IF v < 62 THEN 48 + (v - 52)
    ELSE IF v = 62 THEN 43
    ELSE 47

\* the 6-bit value of a character, -1 for a character outside the alphabet
B64Value(c) ==
    IF c >= 65 /\ c <= 90 THEN c - 65
    ELSE IF c >= 97 /\ c <= 122 THEN c - 97 + 26
    ELSE IF c >= 48 /\ c <= 57 THEN c - 48 + 52
    ELSE IF c = 43 THEN 62
    ELSE IF c = 47 THEN 63
    ELSE -1

\* standard base64 with '=' (61) padding
RECURSIVE Base64Encode(_)
Base64Encode(s) ==
    IF Len(s) = 0 THEN <<>>
    ELSE IF Len(s) = 1
    THEN <<B64Char(s[1] \div 4), B64Char((s[1] % 4) * 16), 61, 61>>
    ELSE IF Len(s) = 2
    THEN <<B64Char(s[1] \div 4), B64Char((s[1] % 4) * 16 + s[2] \div 16),
           B64Char((s[2] % 16) * 4), 61>>
    ELSE <<B64Char(s[1] \div 4), B64Char((s[1] % 4) * 16 + s[2] \div 16),
           B64Char((s[2] % 16) * 4 + s[3] \div 64), B64Char(s[3] % 64)>>
         \o Base64Encode(SubSeq(s, 4, Len(s)))

\* the bytes of one group of four characters; <<-1>> when it is not base64
B64Group(g, isLast) ==
    LET a == B64Value(g[1])
        b == B64Value(g[2])
        c == B64Value(g[3])
        d == B64Value(g[4])
    IN  IF a < 0 \/ b < 0 THEN <<-1>>
        ELSE IF g[3] = 61
        THEN IF isLast /\ g[4] = 61 /\ b % 16 = 0
             THEN <<a * 4 + b \div 16>>
             ELSE <<-1>>
        ELSE IF c < 0 THEN <<-1>>
        ELSE IF g[4] = 61
        THEN IF isLast /\ c % 4 = 0
             THEN <<a * 4 + b \div 16, (b % 16) * 16 + c \div 4>>
             ELSE <<-1>>
        ELSE IF d < 0 THEN <<-1>>
        ELSE <<a * 4 + b \div 16, (b % 16) * 16 + c \div 4, (c % 4) * 64 + d>>

RECURSIVE Flatten(_)
Flatten(groups) ==
    IF Len(groups) = 0 THEN <<>>
    ELSE groups[1] \o Flatten(SubSeq(groups, 2, Len(groups)))

\* Ok(bytes), or an error for text that is not padded standard base64
Base64Decode(t) ==
    IF Len(t) % 4 # 0 THEN Err(DeserializeError, <<>>)
    ELSE LET n == Len(t) \div 4
             groups == [k \in 1..n |->
                           B64Group(SubSeq(t, 4 * k - 3, 4 * k), k = n)]
         IN  IF \E k \in 1..n : groups[k] = <<-1>>
             THEN Err(DeserializeError, <<>>)
             ELSE Ok(Flatten(groups))

\* Serialize for Signature: fields keyid and sig
SerializeSignature(sig) ==
    [keyid |-> sig.key_id, sig |-> Base64Encode(sig.signature)]

\* Serialize for Envelope: fields payloadType, payload and signatures
Serialize(e) ==
    [payloadType |-> e.payload_type,
     payload |-> Base64Encode(e.payload),
     signatures |-> [i \in 1..Len(e.signatures) |->
                         SerializeSignature(e.signatures[i])]]

\* Deserialize for Envelope: every base64 field must decode; the key ids of
\* the signatures are not compared
DeserializeFields(payloadType, payload, keyids, sigs) ==
    IF payload.tag = "Err" \/ \E i \in 1..Len(sigs) : sigs[i].tag = "Err"
    THEN Err(DeserializeError, <<>>)
    ELSE Ok([payload_type |-> payloadType,
             payload |-> payload.value,
             signatures |-> [i \in 1..Len(sigs) |->
                                [key_id |-> keyids[i], signature |-> sigs[i].value]]])

Deserialize(w) ==
    DeserializeFields(
        w.payloadType,
        Base64Decode(w.payload),
        [i \in 1..Len(w.signatures) |-> w.signatures[i].keyid],
        [i \in 1..Len(w.signatures) |-> Base64Decode(w.signatures[i].sig)])

-----------------------------------------------------------------------------
(* The inputs *)

\* the bytes payload types and payloads are made of: a space and a digit
EnvBytes == {SP, 49}
Contents == SeqsUpTo(EnvBytes, MaxLen)

KeyIds == {"k1", "k2"}

\* bytes that S::from_bytes rejects
BadSigBytes == <<49>>
\* text that is not base64
BadText == <<33, 33, 33, 33>>

\* the signature bytes a wire envelope made elsewhere may carry for (t, p):
\* the signature of key 1 over it, or bytes that are no signature
WireSigBytes(t, p) ==
    {as_bytes([key |-> 1, msg |-> pre_authentication_encoding(t, p)]), BadSigBytes}

\* wire envelopes made elsewhere: any key ids, repeated or not
WireInputs ==
    UNION {
        {[payloadType |-> t, payload |-> Base64Encode(p), signatures |-> sigs] :
            sigs \in SeqsUpTo([keyid : KeyIds,
                               sig : {Base64Encode(b) : b \in WireSigBytes(t, p)}],
                              MaxSigs)} :
        t \in Contents, p \in Contents}
    \cup {[payloadType |-> <<>>, payload |-> BadText, signatures |-> <<>>],
          [payloadType |-> <<>>, payload |-> <<>>,
           signatures |-> <<[keyid |-> "k1", sig |-> BadText]>>]}

NoCap == [key |-> 0, rejects |-> FALSE]
NoEdit == [field |-> "none", j |-> 0, i |-> 0, b |-> 0]

KeyIdsOf(sigs) == [i \in 1..Len(sigs) |-> sigs[i].key_id]

\* the byte changes of one field of an envelope: the field, the signature
\* entry j (0 for the other fields), the position i and the new byte b
Edits(e) ==
    UNION {{[field |-> "payload_type", j |-> 0, i |-> i, b |-> b] :
                b \in EnvBytes \ {e.payload_type[i]}} :
           i \in 1..Len(e.payload_type)}
    \cup UNION {{[field |-> "payload", j |-> 0, i |-> i, b |-> b] :
                    b \in EnvBytes \ {e.payload[i]}} :
                i \in 1..Len(e.payload)}
    \cup UNION {
        UNION {{[field |-> "signature", j |-> j, i |-> i, b |-> b] :
                   b \in EnvBytes \ {e.signatures[j].signature[i]}} :
               i \in 1..Len(e.signatures[j].signature)} :
        j \in 1..Len(e.signatures)}

\* the envelope with the edit applied
Edited(e, ed) ==
    IF ed.field = "payload_type"
    THEN [e EXCEPT !.payload_type[ed.i] = ed.b]
    ELSE IF ed.field = "payload"
    THEN [e EXCEPT !.payload[ed.i] = ed.b]
    ELSE IF ed.field = "signature"
    THEN [e EXCEPT !.signatures[ed.j].signature[ed.i] = ed.b]
    ELSE e

-----------------------------------------------------------------------------
(* The envelope as a state machine *)

Call(op, key_id, cap, edit, pre, r) ==
    [op |-> op, key_id |-> key_id, cap |-> cap, edit |-> edit,
     invoked |-> r.invoked, pre |-> pre, post |-> r.env, result |-> r.result]

NoCall(op, e) ==
    [op |-> op, key_id |-> "", cap |-> NoCap, edit |-> NoEdit,
     invoked |-> FALSE, pre |-> e, post |-> e, result |-> Ok(<<>>)]

\* no result is held by the caller
Idle == last.op \in {"new", "idle"}

\* Envelope::new(payload_type, payload)
Init ==
    /\ \E t \in Contents, p \in Contents : env = Envelope_new(t, p)
    /\ origin = "new"
    /\ order = <<>>
    /\ signedBy = [k \in KeyIds |-> 0]
    /\ last = NoCall("new", env)
    /\ type_ = <<>> /\ body = <<>> /\ buf = <<>> /\ calls = 0

\* envelope.sign(key_id, signer)
Sign ==
    /\ Idle
    /\ \E key_id \in KeyIds, signer \in Signers :
        /\ HasKeyId(env, key_id) \/ Len(env.signatures) < MaxSigs
        /\ \E r \in {Envelope_sign(env, key_id, signer)} :
           LET ok == r.result.tag = "Ok"
           IN  /\ env' = r.env
               /\ last' = Call("sign", key_id, signer, NoEdit, env, r)
               /\ order' = IF ok THEN Append(order, key_id) ELSE order
               /\ signedBy' = IF ok THEN [signedBy EXCEPT ![key_id] = signer.key]
                              ELSE signedBy
    /\ UNCHANGED origin
    /\ UNCHANGED paeVars

\* envelope.verify(key_id, verifier); it takes &self, so a call may start
\* while the result of another verify is still held
Verify ==
    /\ Idle \/ last.op = "verify"
    /\ \E key_id \in KeyIds, verifier \in Verifiers :
        \E r \in {Envelope_verify(env, key_id, verifier)} :
            /\ env' = r.env
            /\ last' = Call("verify", key_id,
                            [key |-> verifier.key, rejects |-> FALSE], NoEdit, env, r)
    /\ UNCHANGED <<origin, order, signedBy>>
    /\ UNCHANGED paeVars

\* serde_json::to_vec(&envelope); on the way at most one byte of payload,
\* payloadType or one sig is changed; the receiver runs serde_json::from_slice
\* and verify(key_id, verifier) on the envelope it got.  The sender's envelope
\* stays as it is.
Receive ==
    /\ Idle
    /\ origin = "new"
    /\ \E ed \in Edits(env) \cup {NoEdit} :
        \E d \in {Deserialize(Serialize(Edited(env, ed)))} :
        \E key_id \in KeyIds, verifier \in Verifiers :
        LET cap == [key |-> verifier.key, rejects |-> FALSE]
        IN  IF d.tag = "Err"
            THEN last' = Call("receive", key_id, cap, ed, env,
                              [env |-> env, result |-> d, invoked |-> FALSE])
            ELSE last' = Call("receive", key_id, cap, ed, d.value,
                              Envelope_verify(d.value, key_id, verifier))
    /\ UNCHANGED <<env, origin, order, signedBy>>
    /\ UNCHANGED paeVars

\* serde_json::from_slice of a wire envelope made elsewhere.  What it yields
\* does not depend on the envelope held before, so it is taken from one
\* state only: the fresh empty envelope, standing for none being held yet
Load ==
    /\ last.op = "new"
    /\ env = Envelope_new(<<>>, <<>>)
    /\ \E w \in WireInputs :
        \E d \in {Deserialize(w)} :
            /\ env' = IF d.tag = "Ok" THEN d.value ELSE env
            /\ origin' = IF d.tag = "Ok" THEN "wire" ELSE origin
            /\ order' = IF d.tag = "Ok" THEN KeyIdsOf(d.value.signatures) ELSE order
            /\ last' = Call("load", "", NoCap, NoEdit, w,
                            [env |-> env', result |-> d, invoked |-> FALSE])
    /\ UNCHANGED signedBy
    /\ UNCHANGED paeVars

\* the caller drops the result it holds
Return ==
    /\ ~Idle
    /\ last' = NoCall("idle", env)
    /\ UNCHANGED <<env, origin, order, signedBy>>
    /\ UNCHANGED paeVars

Next == Sign \/ Verify \/ Receive \/ Load \/ Return

Spec == Init /\ [][Next]_vars

-----------------------------------------------------------------------------
(* pre_authentication_encoding as a function of its arguments *)

\* tests::pae_spec: b"http://example.com/HelloWorld" and b"hello world"
HelloWorldType ==
    <<104, 116, 116, 112, 58, 47, 47, 101, 120, 97, 109, 112, 108, 101, 46, 99,
      111, 109, 47, 72, 101, 108, 108, 111, 87, 111, 114, 108, 100>>
HelloWorld == <<104, 101, 108, 108, 111, SP, 119, 111, 114, 108, 100>>
\* b"DSSEv1 29 http://example.com/HelloWorld 11 hello world"
HelloWorldPAE ==
    <<68, 83, 83, 69, 118, 49, SP, 50, 57, SP>> \o HelloWorldType
        \o <<SP, 49, 49, SP>> \o HelloWorld

\* the bytes the enumerated arguments are made of: a space and two digits
PaeBytes == {SP, 48, 49}

\* every byte string up to MaxPaeLen, and three longer ones whose lengths
\* take two decimal digits
PaeInputs ==
    SeqsUpTo(PaeBytes, MaxPaeLen)
        \cup {[i \in 1..10 |-> 65], [i \in 1..11 |-> SP], [i \in 1..12 |-> 49]}
        \cup {HelloWorldType, HelloWorld}

InitPAE ==
    /\ env = Envelope_new(<<>>, <<>>)
    /\ origin = "new"
    /\ order = <<>>
    /\ signedBy = [k \in KeyIds |-> 0]
    /\ last = NoCall("new", env)
    /\ type_ \in PaeInputs
    /\ body \in PaeInputs
    /\ buf = <<>>
    /\ calls = 0

\* pre_authentication_encoding(type_, body)
Encode ==
    /\ calls < MaxCalls
    /\ buf' = pre_authentication_encoding(type_, body)
    /\ calls' = calls + 1
    /\ UNCHANGED <<type_, body>>
    /\ UNCHANGED envVars

NextPAE == Encode

SpecPAE == InitPAE /\ [][NextPAE]_vars

-----------------------------------------------------------------------------
(* Properties of the envelope (Spec) *)

Unique(ids) == \A i, j \in 1..Len(ids) : ids[i] = ids[j] => i = j

Count(ids, k) == Cardinality({i \in 1..Len(ids) : ids[i] = k})

\* the error Envelope::sign returns for a key_id already present
DuplicateKeyError(key_id) ==
    Err(InvalidSigningKey, <<"already has a signature with key_id", key_id>>)

\* the error Envelope::verify returns for a key_id not present
KeyNotFoundError(key_id) ==
    Err(InvalidSigningKey, <<"no signature with key_id", key_id>>)

\* C1: an envelope made by Envelope::new and grown by sign calls only, of
\* whatever outcome, never holds two signatures with the same key_id.
C1_UniqueKeyIds ==
    origin = "new" => Unique(KeyIdsOf(env.signatures))

C1_Witness ==
    /\ origin = "new"
    /\ Len(env.signatures) = 2
    /\ last.op = "sign"
    /\ last.result.tag = "Err"

\* C2: sign with a key_id some signature already carries returns the
\* duplicate-key error without calling the signer and leaves the envelope as
\* it was; an envelope made by new keeps exactly the one signature of that
\* key_id.
C2_DuplicateRejected ==
    (last.op = "sign" /\ last.key_id \in {last.pre.signatures[i].key_id :
                                            i \in 1..Len(last.pre.signatures)})
        => /\ last.result = DuplicateKeyError(last.key_id)
           /\ ~last.invoked
           /\ last.post = last.pre
           /\ env = last.pre
           /\ origin = "new" => Count(KeyIdsOf(env.signatures), last.key_id) = 1

C2_Witness ==
    /\ last.op = "sign"
    /\ origin = "new"
    /\ ~last.cap.rejects
    /\ Len(last.pre.signatures) = 1
    /\ last.pre.signatures[1].key_id = last.key_id
    /\ last.result.tag = "Err"

\* C3: on an envelope made by new, verify for a key_id that sign succeeded
\* under, with the verifier of the signer's key, returns the payload; so it
\* does on the envelope read back from the serialized one, which equals the
\* envelope sent.
C3_RoundTrip ==
    (/\ origin = "new"
     /\ last.op \in {"verify", "receive"}
     /\ last.edit = NoEdit
     /\ signedBy[last.key_id] # 0
     /\ last.cap.key = signedBy[last.key_id])
        => /\ last.result = Ok(env.payload)
           /\ last.pre = env

C3_Witness ==
    /\ origin = "new"
    /\ last.op = "receive"
    /\ last.edit = NoEdit
    /\ signedBy[last.key_id] # 0
    /\ last.cap.key = signedBy[last.key_id]
    /\ Len(env.payload) > 0
    /\ Len(env.signatures) = 2
    /\ last.result = Ok(env.payload)

\* the received envelope differs from the one signed under last.key_id in one
\* byte of the payload, of the payload type, or of that key's signature, and
\* the verifier is the one of the signer's key
TamperedCase ==
    /\ last.op = "receive"
    /\ signedBy[last.key_id] # 0
    /\ last.cap.key = signedBy[last.key_id]
    /\ \/ last.edit.field \in {"payload", "payload_type"}
       \/ /\ last.edit.field = "signature"
          /\ env.signatures[last.edit.j].key_id = last.key_id

\* C4 as claimed: after any such byte change verify fails with
\* VerificationFailure and with no other error.
C4_TamperVerificationFailure ==
    TamperedCase => last.result = Err(VerificationFailure, <<>>)

\* C4 as amended: a changed byte of payload or payload type makes verify fail
\* with VerificationFailure; a changed byte of the signature makes it fail
\* with MalformedSignature when the changed bytes no longer parse as a
\* signature, and with VerificationFailure otherwise.  It never succeeds.
C4_TamperDetected ==
    TamperedCase =>
        IF /\ last.edit.field = "signature"
           /\ from_bytes(last.pre.signatures[last.edit.j].signature).tag = "Err"
        THEN last.result = Err(MalformedSignature, <<>>)
        ELSE last.result = Err(VerificationFailure, <<>>)

C4_Witness ==
    /\ TamperedCase
    /\ last.edit.field = "signature"
    /\ last.result = Err(MalformedSignature, <<>>)

C4_WitnessPayload ==
    /\ TamperedCase
    /\ last.edit.field = "payload"
    /\ last.result = Err(VerificationFailure, <<>>)

\* verify was called with a key_id no signature carries
AbsentKeyCase ==
    /\ last.op = "verify"
    /\ \A i \in 1..Len(last.pre.signatures) :
           last.pre.signatures[i].key_id # last.key_id

C8_SignFrame ==
    /\ KeyIdsOf(env.signatures) = order
    /\ last.op = "sign" =>
        /\ env = last.post
        /\ IF last.result.tag = "Ok"
           THEN /\ last.post.payload_type = last.pre.payload_type
                /\ last.post.payload = last.pre.payload
                /\ Len(last.post.signatures) = Len(last.pre.signatures) + 1
                /\ \A i \in 1..Len(last.pre.signatures) :
                       last.post.signatures[i] = last.pre.signatures[i]
                /\ last.post.signatures[Len(last.post.signatures)].key_id = last.key_id
           ELSE /\ last.post = last.pre
                /\ last.result.kind \in {InvalidSigningKey, SigningFailure}

C8_Witness ==
    /\ last.op = "sign"
    /\ last.result.tag = "Ok"
    /\ Len(last.pre.signatures) = 1
    /\ Len(env.signatures) = 2

C8_WitnessFailure ==
    /\ last.op = "sign"
    /\ last.result = Err(SigningFailure, <<>>)
    /\ Len(last.pre.signatures) = 1

\* the positions of a key_id in a list of signatures
Positions(sigs, k) == {i \in 1..Len(sigs) : sigs[i].key_id = k}

Min(S) == CHOOSE x \in S : \A y \in S : x <= y

\* the wire envelope's base64 fields all decode
Decodes(w) ==
    /\ Base64Decode(w.payload).tag = "Ok"
    /\ \A i \in 1..Len(w.signatures) : Base64Decode(w.signatures[i].sig).tag = "Ok"

\* C9: a wire envelope whose signatures repeat a key_id deserializes without
\* error, with the entries in the order of the wire; verify for a key_id
\* answers by the first entry carrying it alone.
C9_FirstMatch ==
    /\ (last.op = "load" /\ Decodes(last.pre)
            /\ ~Unique([i \in 1..Len(last.pre.signatures) |->
                           last.pre.signatures[i].keyid]))
        => /\ last.result.tag = "Ok"
           /\ KeyIdsOf(env.signatures) =
                  [i \in 1..Len(last.pre.signatures) |-> last.pre.signatures[i].keyid]
    /\ (last.op = "verify" /\ Positions(last.pre.signatures, last.key_id) # {})
        => LET first == last.pre.signatures[Min(Positions(last.pre.signatures,
                                                         last.key_id))]
               checked == Signature_verify(first, last.pre.payload_type,
                                           last.pre.payload, [key |-> last.cap.key])
           IN  last.result = IF checked.tag = "Ok" THEN Ok(last.pre.payload)
                             ELSE checked

C9_Witness ==
    /\ origin = "wire"
    /\ last.op = "verify"
    /\ Cardinality(Positions(env.signatures, last.key_id)) = 2
    /\ last.result = Err(MalformedSignature, <<>>)
    /\ \E i \in Positions(env.signatures, last.key_id) :
           Signature_verify(env.signatures[i], env.payload_type, env.payload,
                            [key |-> last.cap.key]).tag = "Ok"

-----------------------------------------------------------------------------
(* Properties of pre_authentication_encoding (SpecPAE) *)

RECURSIVE DecValue(_)
DecValue(d) ==
    IF Len(d) = 0 THEN 0
    ELSE DecValue(SubSeq(d, 1, Len(d) - 1)) * 10 + (d[Len(d)] - 48)

\* d is the decimal ASCII form of n without leading zeros
IsLEN(d, n) ==
    /\ Len(d) >= 1
    /\ \A i \in 1..Len(d) : d[i] >= 48 /\ d[i] <= 57
    /\ Len(d) > 1 => d[1] # 48
    /\ DecValue(d) = n

\* out is "DSSEv1" SP LEN(t) SP t SP LEN(b) SP b, the lengths written with a
\* and c digits
Layout(out, t, b, a, c) ==
    /\ Len(out) = 6 + 1 + a + 1 + Len(t) + 1 + c + 1 + Len(b)
    /\ SubSeq(out, 1, 6) = <<68, 83, 83, 69, 118, 49>>
    /\ out[7] = SP
    /\ IsLEN(SubSeq(out, 8, 7 + a), Len(t))
    /\ out[8 + a] = SP
    /\ SubSeq(out, 9 + a, 8 + a + Len(t)) = t
    /\ out[9 + a + Len(t)] = SP
    /\ IsLEN(SubSeq(out, 10 + a + Len(t), 9 + a + Len(t) + c), Len(b))
    /\ out[10 + a + Len(t) + c] = SP
    /\ SubSeq(out, 11 + a + Len(t) + c, Len(out)) = b

\* C6: every call of pre_authentication_encoding(type, body) returns "DSSEv1"
\* SP LEN(type) SP type SP LEN(body) SP body, LEN the decimal length without
\* leading zeros ("0" for the empty sequence), and so the same bytes each time.
C6_PaeLayout ==
    calls > 0 => \E a \in 1..3, c \in 1..3 : Layout(buf, type_, body, a, c)

C6_Witness ==
    /\ calls = MaxCalls
    /\ type_ = HelloWorldType
    /\ body = HelloWorld
    /\ buf = HelloWorldPAE

C6_WitnessEmpty ==
    /\ calls > 0
    /\ type_ = <<>>
    /\ body = <<>>
    /\ buf = <<68, 83, 83, 69, 118, 49, SP, 48, SP, SP, 48, SP>>

\* the encodings of all enumerated pairs
PaeTable ==
    [p \in PaeInputs \X PaeInputs |-> pre_authentication_encoding(p[1], p[2])]

\* C7: no other pair (type, body) has the encoding of this one.
C7_PaeInjective ==
    calls = 1 =>
        \A p \in PaeInputs \X PaeInputs :
            PaeTable[p] = buf => p = <<type_, body>>

C7_Witness ==
    /\ calls = 1
    /\ type_ = <<49, SP>>
    /\ body = <<SP, 49>>
    /\ buf = <<68, 83, 83, 69, 118, 49, SP, 50, SP, 49, SP, SP, 50, SP, SP, 49>>

====
